---- MODULE Spec2Model ----
(***************************************************************************)
(* Image Meta Cleaner (src/src/intents/design_editor/app.tsx).             *)
(*                                                                         *)
(* The App component as a state machine: its React state, the user's      *)
(* handlers, and the continuations of the promises the handlers await     *)
(* (exifr.parse, image load, canvas.toBlob, FileReader, upload,           *)
(* addElement, the host's resolveImageRef).  Every synchronous segment of *)
(* a handler between two awaits is one atomic action.                     *)
(***************************************************************************)
EXTENDS Integers, FiniteSets, Sequences, Bags, TLC

(***************************************************************************)
(* Bounds of the model.                                                    *)
(***************************************************************************)
\* promises that may be pending at once
MaxInFlight == 2
\* tags in a tag set of TagFiles
MaxTags == 2

(***************************************************************************)
(* JavaScript values.  undefined, numbers, strings and Date objects are   *)
(* records of one shape; null (of the React state) is its own record; an  *)
(* object is a function from its own keys.                                 *)
(***************************************************************************)
Null == [null |-> TRUE]
Undefined == [t |-> "undefined", n |-> 0, s |-> ""]
Num(n) == [t |-> "number", n |-> n, s |-> ""]
Str(s) == [t |-> "string", n |-> 0, s |-> s]
DateV(s) == [t |-> "date", n |-> 0, s |-> s]

\* o.k : a key the object does not have reads as undefined
Get(o, k) == IF k \in DOMAIN o THEN o[k] ELSE Undefined

\* the truthiness of a value read from a tag set or a record
Truthy(v) ==
    CASE v.t = "undefined" -> FALSE
      [] v.t = "number" -> v.n # 0
      [] v.t = "string" -> v.s # ""
      [] OTHER -> TRUE

\* a || b
OrElse(a, b) == IF Truthy(a) THEN a ELSE b

\* v?.toString() : undefined stays undefined, a Date or a string becomes a string
OptToString(v) == IF v.t = "undefined" THEN Undefined ELSE Str(v.s)

\* {} : the object without keys
EmptyObject == [k \in {} |-> Undefined]

(***************************************************************************)
(* Files.  A File (or Blob) is its declared MIME type, what its metadata  *)
(* segments parse to, and what its pixel data decodes to.                 *)
(***************************************************************************)
AcceptedTypes == {"image/jpeg", "image/png", "image/webp", "image/tiff"}

\* the keys of ExifData that handleFileSelect reads, and one tag it does not map
ExifKeys ==
    {"latitude", "longitude", "DateTime", "DateTimeOriginal", "Make", "Model",
     "Software", "ImageWidth", "ImageHeight", "ExifImageWidth", "ExifImageHeight",
     "Orientation", "Artist", "Copyright", "ColorSpace"}

\* the values a tag takes in the files of the model
TagValues(k) ==
    CASE k = "latitude" -> {Num(0), Num(37)}
      [] k = "longitude" -> {Num(-122)}
      [] k = "DateTime" -> {DateV("Tue Jan 02 2024")}
      [] k = "DateTimeOriginal" -> {DateV("Mon Jan 01 2024"), Str("")}
      [] k = "Make" -> {Str("Canon"), Str("")}
      [] k = "Model" -> {Str("EOS")}
      [] k = "Software" -> {Str("GIMP")}
      [] k = "ImageWidth" -> {Num(0), Num(640)}
      [] k = "ImageHeight" -> {Num(0), Num(480)}
      [] k = "ExifImageWidth" -> {Num(800)}
      [] k = "ExifImageHeight" -> {Num(600)}
      [] k = "Orientation" -> {Num(1)}
      [] k = "Artist" -> {Str("Ann"), Str("")}
      [] k = "Copyright" -> {Str("(c) Ann")}
      [] OTHER -> {Num(1)}

\* what the metadata segments of a file parse to
NoSegments == [kind |-> "none", tags |-> EmptyObject]
CorruptSegments == [kind |-> "corrupt", tags |-> EmptyObject]
Tags(o) == [kind |-> "tags", tags |-> o]

\* what the pixel data decodes to
Raster(pix, w, h) == [ok |-> TRUE, pix |-> pix, w |-> w, h |-> h]
Undecodable == [ok |-> FALSE, pix |-> "", w |-> 0, h |-> 0]

File(name, type, meta, image) ==
    [name |-> name, type |-> type, meta |-> meta, image |-> image]

GpsPhotoTags ==
    [k \in {"latitude", "longitude", "Make", "ExifImageWidth"} |->
        CASE k = "latitude" -> Num(37)
          [] k = "longitude" -> Num(-122)
          [] k = "Make" -> Str("Canon")
          [] OTHER -> Num(640)]

\* the files the user picks from in Spec
Files ==
    { File("gps.png", "image/png", Tags(GpsPhotoTags), Raster("gps", 640, 480)),
      File("broken.jpg", "image/jpeg", CorruptSegments, Undecodable),
      File("plain.webp", "image/webp", NoSegments, Raster("plain", 800, 600)) }

\* the object o with the key k added
Extend(o, k, v) == [j \in DOMAIN o \cup {k} |-> IF j = k THEN v ELSE o[j]]

\* every tag set of at most n tags
RECURSIVE TagSetsUpTo(_)
TagSetsUpTo(n) ==
    IF n = 0 THEN {EmptyObject}
    ELSE LET prev == TagSetsUpTo(n - 1) IN
         prev \cup UNION { UNION { { Extend(o, k, v) : v \in TagValues(k) }
                                   : k \in ExifKeys \ DOMAIN o }
                           : o \in {p \in prev : Cardinality(DOMAIN p) = n - 1} }

\* every tag set of 1..MaxTags tags
TagSets == TagSetsUpTo(MaxTags) \ {EmptyObject}

\* one JPEG per tag set
TagFiles ==
    { File("photo.jpg", "image/jpeg", Tags(o), Raster("photo", 640, 480)) :
        o \in TagSets }

\* one image without metadata per accepted MIME type
FormatFiles ==
    { File("image", type, NoSegments, Raster("image", 1024, 768)) :
        type \in AcceptedTypes }

\* the files the user picks from in SpecSingle
SingleFiles == TagFiles \cup FormatFiles

(***************************************************************************)
(* State.                                                                  *)
(***************************************************************************)
VARIABLES
    selectedFile,      \* useState<File | null>
    imagePreview,      \* useState<string | null>
    metadata,          \* useState<MetadataInfo | null>
    processingState,   \* useState<ProcessingState>
    error,             \* useState<string | null>
    cleanedImageUrl,   \* useState<string | null>
    cleanedImageSize,  \* useState<{width, height} | null>
    parses,            \* bag of the files whose exifr.parse is pending
    cleans,            \* bag of the suspended runs of handleCleanMetadata
    adds,              \* bag of the suspended runs of handleClick
    drags,             \* bag of the drag sessions the host holds
    sinkCall,          \* the call to the host that the last step made
    ev                 \* the handler or continuation that ran last

vars == <<selectedFile, imagePreview, metadata, processingState, error,
          cleanedImageUrl, cleanedImageSize, parses, cleans, adds, drags,
          sinkCall, ev>>

\* what ev holds: the handler or continuation, and the way it went
Event(op, out) == [op |-> op, out |-> out]

\* the React state
reactState == <<selectedFile, imagePreview, metadata, processingState, error,
                cleanedImageUrl, cleanedImageSize>>

(***************************************************************************)
(* The metadata extractor.                                                 *)
(***************************************************************************)
\* exifr.parse(file, ...): a tag set, null, or a thrown error
ExifrParse(file) ==
    CASE file.meta.kind = "tags" -> [r |-> "ok", data |-> file.meta.tags]
      [] file.meta.kind = "none" -> [r |-> "null", data |-> EmptyObject]
      [] OTHER -> [r |-> "throw", data |-> EmptyObject]

MetadataKeys ==
    {"latitude", "longitude", "dateTime", "dateTimeOriginal", "make", "model",
     "software", "imageWidth", "imageHeight", "orientation", "artist",
     "copyright", "raw"}

\* the object literal parsedMetadata: every key is written, set or undefined
ParsedMetadata(exifData) ==
    [k \in MetadataKeys |->
        CASE k = "latitude" -> Get(exifData, "latitude")
          [] k = "longitude" -> Get(exifData, "longitude")
          [] k = "dateTime" -> OptToString(Get(exifData, "DateTime"))
          [] k = "dateTimeOriginal" -> OptToString(Get(exifData, "DateTimeOriginal"))
          [] k = "make" -> Get(exifData, "Make")
          [] k = "model" -> Get(exifData, "Model")
          [] k = "software" -> Get(exifData, "Software")
          [] k = "imageWidth" ->
                OrElse(Get(exifData, "ImageWidth"), Get(exifData, "ExifImageWidth"))
          [] k = "imageHeight" ->
                OrElse(Get(exifData, "ImageHeight"), Get(exifData, "ExifImageHeight"))
          [] k = "orientation" -> Get(exifData, "Orientation")
          [] k = "artist" -> Get(exifData, "Artist")
          [] k = "copyright" -> Get(exifData, "Copyright")
          [] OTHER -> exifData]

\* a variant of ExtractedRecord whose catch block stores no record
ExtractedRecordUnlessThrown(parsed) ==
    IF parsed.r = "ok" THEN ParsedMetadata(parsed.data)
    ELSE IF parsed.r = "null" THEN EmptyObject
    ELSE Null

\* what the try/catch of handleFileSelect hands to setMetadata
ExtractedRecord(parsed) ==
    IF parsed.r = "ok" THEN ParsedMetadata(parsed.data) ELSE EmptyObject

\* a variant of HasPrivacyRisks that leaves out the artist
HasPrivacyRisksWithoutArtist(m) ==
    /\ m # Null
    /\ \/ Get(m, "latitude") # Undefined
       \/ Get(m, "longitude") # Undefined
       \/ Get(m, "make") # Undefined
       \/ Get(m, "model") # Undefined
       \/ Get(m, "dateTimeOriginal") # Undefined

\* const hasPrivacyRisks = metadata && (...)
HasPrivacyRisks(m) ==
    /\ m # Null
    /\ \/ Get(m, "latitude") # Undefined
       \/ Get(m, "longitude") # Undefined
       \/ Get(m, "make") # Undefined
       \/ Get(m, "model") # Undefined
       \/ Get(m, "artist") # Undefined
       \/ Get(m, "dateTimeOriginal") # Undefined

hasPrivacyRisks == HasPrivacyRisks(metadata)

\* URL.createObjectURL(file)
CreateObjectURL(file) == [scheme |-> "blob", body |-> file]

(***************************************************************************)
(* The pixel re-encoder.                                                   *)
(***************************************************************************)
\* the image element once img.src has loaded: the decoded pixels of the file
LoadImage(file) == file.image

\* canvas.width = img.naturalWidth, canvas.height = img.naturalHeight, drawImage
DrawCanvas(img) == [width |-> img.w, height |-> img.h, pix |-> img.pix]

\* a variant of EncodeType that keeps the declared type of a WebP file
EncodeTypeKeepingWebp(file) ==
    IF file.type \in {"image/png", "image/webp"} THEN file.type ELSE "image/jpeg"

\* the type argument of canvas.toBlob
EncodeType(file) == IF file.type = "image/png" THEN "image/png" ELSE "image/jpeg"

\* the Blob canvas.toBlob hands to its callback: the canvas pixels, encoded
ToBlob(canvas, type) ==
    File("", type, NoSegments, Raster(canvas.pix, canvas.width, canvas.height))

\* reader.readAsDataURL(blob), reader.result
ReadAsDataURL(blob) == [scheme |-> "data", body |-> blob]

\* a variant of NaturalSize that takes the size from the wrong axes
NaturalSizeSwapped(img) == [width |-> img.h, height |-> img.w]

\* setCleanedImageSize({width: img.naturalWidth, height: img.naturalHeight})
NaturalSize(img) == [width |-> img.w, height |-> img.h]

\* the data URL a run of handleCleanMetadata on `file` stores when no step fails
CleanOutput(file) ==
    ReadAsDataURL(ToBlob(DrawCanvas(LoadImage(file)), EncodeType(file)))

NoCanvas == [width |-> 0, height |-> 0, pix |-> ""]
NoBlob == File("", "", NoSegments, Undecodable)

\* a run of handleCleanMetadata suspended at an await
CleanTask(file, pc, canvas, blob) ==
    [file |-> file, pc |-> pc, canvas |-> canvas, blob |-> blob]

\* a variant of ReaderInput that reads the selected file instead of the blob
ReaderInputOriginal(t) == t.file

\* the argument of reader.readAsDataURL in the run t: cleanedBlob
ReaderInput(t) == t.blob

CleanErrorMessage == Str("Failed to clean metadata. Please try again.")

(***************************************************************************)
(* Adding the cleaned image to the design.                                 *)
(***************************************************************************)
\* the features the host may report as supported, per design context
Capabilities ==
    { {"addElementAtPoint", "startDragToPoint"},
      {"addElementAtCursor", "startDragToCursor"},
      {"addElementAtPoint", "addElementAtCursor", "startDragToPoint",
       "startDragToCursor"},
      {} }

\* [addElementAtPoint, addElementAtCursor].find((fn) => isSupported(fn))
AddElement(caps) ==
    IF "addElementAtPoint" \in caps THEN "addElementAtPoint"
    ELSE IF "addElementAtCursor" \in caps THEN "addElementAtCursor"
    ELSE "undefined"

\* const mimeType = selectedFile.type === "image/png" ? "image/png" : "image/jpeg"
MimeTypeOf(file) == IF file.type = "image/png" THEN "image/png" ELSE "image/jpeg"

\* a variant of ClickUploadRequest that uploads the preview of the selected file
ClickUploadRequestOfPreview(file, url, size) ==
    [type |-> "image", mimeType |-> MimeTypeOf(file), url |-> CreateObjectURL(file),
     thumbnailUrl |-> url, aiDisclosure |-> "none",
     width |-> size.width, height |-> size.height]

\* the argument of upload(...) in handleClick
ClickUploadRequest(file, url, size) ==
    [type |-> "image", mimeType |-> MimeTypeOf(file), url |-> url,
     thumbnailUrl |-> url, aiDisclosure |-> "none",
     width |-> size.width, height |-> size.height]

\* the argument of upload(...) in uploadCleanedImage
DragUploadRequest(file, url, size) ==
    [type |-> "image", mimeType |-> MimeTypeOf(file), url |-> url,
     thumbnailUrl |-> url, aiDisclosure |-> "none",
     width |-> size.width, height |-> size.height]

PreviewSize == 100

\* const dragData: ImageDragConfig
DragData(file, url, size) ==
    [type |-> "image", resolveImageRef |-> DragUploadRequest(file, url, size),
     previewUrl |-> url,
     previewSize |-> [width |-> PreviewSize, height |-> PreviewSize],
     fullSize |-> [width |-> size.width, height |-> size.height]]

\* asset.ref: the host's reference to what was uploaded
AssetRef(req) == [asset |-> req]

\* the argument of addElement(...)
AddElementRequest(ref) ==
    [type |-> "image", ref |-> ref,
     altText |-> [text |-> "Image with metadata removed", decorative |-> FALSE]]

NoRef == [asset |-> Null]
NoCall == [sink |-> "none"]

\* a run of handleClick suspended at an await
AddTask(pc, req, addElement, ref) ==
    [pc |-> pc, req |-> req, addElement |-> addElement, ref |-> ref]

\* a drag session: the host holds dragData, then awaits resolveImageRef
DragTask(pc, data) == [pc |-> pc, data |-> data]

AddErrorMessage == Str("Failed to add image to design. Please try again.")

(***************************************************************************)
(* Initial state: the useState defaults.                                   *)
(***************************************************************************)
Init ==
    /\ selectedFile = Null
    /\ imagePreview = Null
    /\ metadata = Null
    /\ processingState = "idle"
    /\ error = Null
    /\ cleanedImageUrl = Null
    /\ cleanedImageSize = Null
    /\ parses = EmptyBag
    /\ cleans = EmptyBag
    /\ adds = EmptyBag
    /\ drags = EmptyBag
    /\ sinkCall = NoCall
    /\ ev = Event("init", "")

\* the number of pending promises
InFlight ==
    BagCardinality(parses) + BagCardinality(cleans) + BagCardinality(adds)
        + BagCardinality(drags)

(***************************************************************************)
(* What the rendered tree lets the user do.                                *)
(***************************************************************************)
\* the pointer is not in the middle of a drag of the <ImageCard>
PointerFree == \A d \in BagToSet(drags) : d.pc # "dragging"

\* <FileInput> is rendered
FileInputShown == PointerFree /\ selectedFile = Null

\* one of the two reset buttons is rendered
ResetShown == PointerFree /\ selectedFile # Null /\ processingState # "cleaning"

\* the "Clean metadata" button is rendered and not disabled
CleanEnabled ==
    /\ PointerFree
    /\ selectedFile # Null
    /\ processingState # "cleaning"
    /\ processingState # "done"
    /\ ~(metadata = Null \/ processingState = "reading")

\* the <ImageCard> of the cleaned image is rendered
ImageCardShown ==
    /\ PointerFree
    /\ selectedFile # Null
    /\ processingState = "done"
    /\ cleanedImageUrl # Null

\* the "Detected metadata" section is rendered
MetadataSectionShown ==
    selectedFile # Null /\ metadata # Null /\ processingState # "reading"

\* the section shows "No metadata found in this image." in place of the box
\* (metadata.raw, when the key is there, is the tag set object: truthy)
NoMetadataFoundShown ==
    /\ MetadataSectionShown
    /\ \/ Cardinality(DOMAIN metadata) = 0
       \/ Cardinality(DOMAIN metadata) = 1 /\ "raw" \in DOMAIN metadata

\* the section shows the box of metadata rows
MetadataBoxShown == MetadataSectionShown /\ ~NoMetadataFoundShown

\* n.toFixed(6) of an integral number
ToFixed6(n) == ToString(n) \o ".000000"

\* formatGPS(lat, lng)
FormatGPS(lat, lng) ==
    IF lat = Undefined \/ lng = Undefined THEN Null
    ELSE Str(ToFixed6(lat.n) \o ", " \o ToFixed6(lng.n))

\* the "Privacy risks detected!" alert is rendered
PrivacyWarningShown == MetadataSectionShown /\ hasPrivacyRisks

\* the labels of the rows with isRisk that the box of a record m renders
RiskRows(m) ==
    {r \in {"GPS location", "Date taken", "Camera make", "Camera model", "Artist"} :
        CASE r = "GPS location" ->
                LET gps == FormatGPS(Get(m, "latitude"), Get(m, "longitude")) IN
                gps # Null /\ Truthy(gps)
          [] r = "Date taken" -> Truthy(Get(m, "dateTimeOriginal"))
          [] r = "Camera make" -> Truthy(Get(m, "make"))
          [] r = "Camera model" -> Truthy(Get(m, "model"))
          [] OTHER -> Truthy(Get(m, "artist"))}

\* the risk rows on screen
RiskRowsShown == IF MetadataBoxShown THEN RiskRows(metadata) ELSE {}

(***************************************************************************)
(* handleFileSelect, up to its await.                                      *)
(***************************************************************************)
HandleFileSelect(files) ==
    /\ FileInputShown
    /\ IF Len(files) = 0
       THEN /\ ev' = Event("handleFileSelect", "noFile")
            /\ UNCHANGED <<selectedFile, imagePreview, metadata, processingState,
                           error, cleanedImageUrl, cleanedImageSize, parses,
                           cleans, adds, drags>>
            /\ sinkCall' = NoCall
       ELSE LET file == files[1] IN
            /\ InFlight < MaxInFlight
            /\ error' = Null
            /\ cleanedImageUrl' = Null
            /\ metadata' = Null
            /\ selectedFile' = file
            /\ processingState' = "reading"
            /\ imagePreview' = CreateObjectURL(file)
            /\ parses' = parses (+) SetToBag({file})
            /\ ev' = Event("handleFileSelect", "reading")
            /\ sinkCall' = NoCall
            /\ UNCHANGED <<cleanedImageSize, cleans, adds, drags>>

\* a variant of ParseSettled that stores the record and leaves processingState
ParseSettledWithoutIdle(file) ==
    /\ BagIn(file, parses)
    /\ parses' = parses (-) SetToBag({file})
    /\ metadata' = ExtractedRecord(ExifrParse(file))
    /\ ev' = Event("parseSettled", ExifrParse(file).r)
    /\ sinkCall' = NoCall
    /\ UNCHANGED <<selectedFile, imagePreview, error, cleanedImageUrl,
                   cleanedImageSize, processingState, cleans, adds, drags>>

\* handleFileSelect after its await: exifr.parse has settled for `file`
ParseSettled(file) ==
    /\ BagIn(file, parses)
    /\ parses' = parses (-) SetToBag({file})
    /\ metadata' = ExtractedRecord(ExifrParse(file))
    /\ processingState' = "idle"
    /\ ev' = Event("parseSettled", ExifrParse(file).r)
    /\ sinkCall' = NoCall
    /\ UNCHANGED <<selectedFile, imagePreview, error, cleanedImageUrl,
                   cleanedImageSize, cleans, adds, drags>>

(***************************************************************************)
(* handleReset.                                                            *)
(***************************************************************************)
\* a reset that clears only what handleFileSelect clears
HandleResetKeepingSize ==
    /\ ResetShown
    /\ selectedFile' = Null
    /\ imagePreview' = Null
    /\ metadata' = Null
    /\ cleanedImageUrl' = Null
    /\ processingState' = "idle"
    /\ error' = Null
    /\ ev' = Event("handleReset", "")
    /\ sinkCall' = NoCall
    /\ UNCHANGED <<cleanedImageSize, parses, cleans, adds, drags>>

HandleReset ==
    /\ ResetShown
    /\ selectedFile' = Null
    /\ imagePreview' = Null
    /\ metadata' = Null
    /\ cleanedImageUrl' = Null
    /\ cleanedImageSize' = Null
    /\ processingState' = "idle"
    /\ error' = Null
    /\ ev' = Event("handleReset", "")
    /\ sinkCall' = NoCall
    /\ UNCHANGED <<parses, cleans, adds, drags>>

(***************************************************************************)
(* handleCleanMetadata.                                                    *)
(***************************************************************************)
\* up to `await loadPromise`
HandleCleanMetadata ==
    /\ CleanEnabled
    /\ selectedFile # Null
    /\ InFlight < MaxInFlight
    /\ processingState' = "cleaning"
    /\ error' = Null
    /\ cleans' = cleans (+) SetToBag({CleanTask(selectedFile, "load", NoCanvas, NoBlob)})
    /\ ev' = Event("handleCleanMetadata", "")
    /\ sinkCall' = NoCall
    /\ UNCHANGED <<selectedFile, imagePreview, metadata, cleanedImageUrl,
                   cleanedImageSize, parses, adds, drags>>

\* a variant of CleanFailed that leaves processingState as it is
CleanFailedWithoutIdle(t, step) ==
    /\ cleans' = cleans (-) SetToBag({t})
    /\ error' = CleanErrorMessage
    /\ sinkCall' = NoCall
    /\ ev' = Event("cleanFailed", step)
    /\ UNCHANGED <<selectedFile, imagePreview, metadata, processingState,
                   cleanedImageUrl, cleanedImageSize, parses, adds, drags>>

\* the catch block, entered from the step `step` of the run t
CleanFailed(t, step) ==
    /\ cleans' = cleans (-) SetToBag({t})
    /\ error' = CleanErrorMessage
    /\ processingState' = "idle"
    /\ ev' = Event("cleanFailed", step)
    /\ sinkCall' = NoCall
    /\ UNCHANGED <<selectedFile, imagePreview, metadata, cleanedImageUrl,
                   cleanedImageSize, parses, adds, drags>>

\* img.onload or img.onerror fires; on load, up to the await of toBlob
ImageSettled(t, ctx) ==
    /\ BagIn(t, cleans)
    /\ t.pc = "load"
    /\ IF ~LoadImage(t.file).ok
       THEN CleanFailed(t, "load")
       ELSE IF ~ctx
       THEN CleanFailed(t, "context")
       ELSE LET canvas == DrawCanvas(LoadImage(t.file)) IN
            /\ cleans' = (cleans (-) SetToBag({t})) (+)
                            SetToBag({CleanTask(t.file, "toBlob", canvas, NoBlob)})
            /\ ev' = Event("imageLoaded", "")
            /\ sinkCall' = NoCall
            /\ UNCHANGED <<selectedFile, imagePreview, metadata, processingState,
                           error, cleanedImageUrl, cleanedImageSize, parses, adds,
                           drags>>

\* the callback of canvas.toBlob runs; with a blob, up to the await of the reader
BlobSettled(t, made) ==
    /\ BagIn(t, cleans)
    /\ t.pc = "toBlob"
    /\ IF ~made
       THEN CleanFailed(t, "toBlob")
       ELSE /\ cleans' = (cleans (-) SetToBag({t})) (+)
                            SetToBag({CleanTask(t.file, "read", t.canvas,
                                                ToBlob(t.canvas, EncodeType(t.file)))})
            /\ ev' = Event("blobMade", "")
            /\ sinkCall' = NoCall
            /\ UNCHANGED <<selectedFile, imagePreview, metadata, processingState,
                           error, cleanedImageUrl, cleanedImageSize, parses, adds,
                           drags>>

\* a variant of ReadSettled that stores the URL and not the size
ReadSettledWithoutSize(t, read) ==
    /\ BagIn(t, cleans)
    /\ t.pc = "read"
    /\ IF ~read
       THEN CleanFailed(t, "read")
       ELSE /\ cleans' = cleans (-) SetToBag({t})
            /\ cleanedImageUrl' = ReadAsDataURL(ReaderInput(t))
            /\ processingState' = "done"
            /\ ev' = Event("cleanDone", "")
            /\ sinkCall' = NoCall
            /\ UNCHANGED <<selectedFile, imagePreview, metadata, error, parses,
                           cleanedImageSize, adds, drags>>

\* reader.onloadend or reader.onerror fires; with a string, the result is stored
ReadSettled(t, read) ==
    /\ BagIn(t, cleans)
    /\ t.pc = "read"
    /\ IF ~read
       THEN CleanFailed(t, "read")
       ELSE /\ cleans' = cleans (-) SetToBag({t})
            /\ cleanedImageUrl' = ReadAsDataURL(ReaderInput(t))
            /\ cleanedImageSize' = NaturalSize(LoadImage(t.file))
            /\ processingState' = "done"
            /\ ev' = Event("cleanDone", "")
            /\ sinkCall' = NoCall
            /\ UNCHANGED <<selectedFile, imagePreview, metadata, error, parses,
                           adds, drags>>

(***************************************************************************)
(* handleClick.                                                            *)
(***************************************************************************)
\* up to `await upload(...)`; caps is what isSupported reports at this render
HandleClick(caps) ==
    /\ ImageCardShown
    /\ IF \/ cleanedImageUrl = Null
          \/ selectedFile = Null
          \/ AddElement(caps) = "undefined"
          \/ cleanedImageSize = Null
       THEN /\ ev' = Event("handleClick", "returned")
            /\ sinkCall' = NoCall
            /\ UNCHANGED <<reactState, parses, cleans, adds, drags>>
       ELSE LET req == ClickUploadRequest(selectedFile, cleanedImageUrl,
                                          cleanedImageSize) IN
            /\ InFlight < MaxInFlight
            /\ sinkCall' = [sink |-> "upload", req |-> req]
            /\ adds' = adds (+) SetToBag({AddTask("upload", req, AddElement(caps), NoRef)})
            /\ ev' = Event("handleClick", "upload")
            /\ UNCHANGED <<reactState, parses, cleans, drags>>

\* a variant of AddFailed that also falls back to idle, as the catch block of
\* handleCleanMetadata does
AddFailedToIdle(t, step) ==
    /\ adds' = adds (-) SetToBag({t})
    /\ error' = AddErrorMessage
    /\ processingState' = "idle"
    /\ sinkCall' = NoCall
    /\ ev' = Event("addFailed", step)
    /\ UNCHANGED <<selectedFile, imagePreview, metadata, cleanedImageUrl,
                   cleanedImageSize, parses, cleans, drags>>

\* the catch block of handleClick, entered from the step `step` of the run t
AddFailed(t, step) ==
    /\ adds' = adds (-) SetToBag({t})
    /\ error' = AddErrorMessage
    /\ sinkCall' = NoCall
    /\ ev' = Event("addFailed", step)
    /\ UNCHANGED <<selectedFile, imagePreview, metadata, processingState,
                   cleanedImageUrl, cleanedImageSize, parses, cleans, drags>>

\* a variant of UploadSettled that goes on to addElement when upload rejected
UploadSettledInsertingOnFailure(t, ok) ==
    /\ BagIn(t, adds)
    /\ t.pc = "upload"
    /\ LET ref == IF ok THEN AssetRef(t.req) ELSE NoRef IN
       /\ sinkCall' = [sink |-> t.addElement, req |-> AddElementRequest(ref)]
       /\ adds' = (adds (-) SetToBag({t})) (+)
                     SetToBag({AddTask("insert", t.req, t.addElement, ref)})
       /\ ev' = Event("uploadSettled", "addElement")
       /\ UNCHANGED <<reactState, parses, cleans, drags>>

\* upload(...) settles; on success, up to `await addElement(...)`
UploadSettled(t, ok) ==
    /\ BagIn(t, adds)
    /\ t.pc = "upload"
    /\ IF ~ok
       THEN AddFailed(t, "upload")
       ELSE LET ref == AssetRef(t.req) IN
            /\ sinkCall' = [sink |-> t.addElement, req |-> AddElementRequest(ref)]
            /\ adds' = (adds (-) SetToBag({t})) (+)
                          SetToBag({AddTask("insert", t.req, t.addElement, ref)})
            /\ ev' = Event("uploadSettled", "addElement")
            /\ UNCHANGED <<reactState, parses, cleans, drags>>

\* addElement(...) settles
InsertSettled(t, ok) ==
    /\ BagIn(t, adds)
    /\ t.pc = "insert"
    /\ IF ~ok
       THEN AddFailed(t, "insert")
       ELSE /\ adds' = adds (-) SetToBag({t})
            /\ sinkCall' = NoCall
            /\ ev' = Event("addDone", "")
            /\ UNCHANGED <<reactState, parses, cleans, drags>>

(***************************************************************************)
(* handleDragStart.                                                        *)
(***************************************************************************)
HandleDragStart(caps) ==
    /\ ImageCardShown
    /\ IF cleanedImageUrl = Null \/ selectedFile = Null \/ cleanedImageSize = Null
       THEN /\ ev' = Event("handleDragStart", "returned")
            /\ sinkCall' = NoCall
            /\ UNCHANGED <<reactState, parses, cleans, adds, drags>>
       ELSE LET dragData == DragData(selectedFile, cleanedImageUrl,
                                     cleanedImageSize)
                startDrag ==
                    IF "startDragToPoint" \in caps THEN "startDragToPoint"
                    ELSE IF "startDragToCursor" \in caps THEN "startDragToCursor"
                    ELSE "undefined"
            IN
            IF startDrag = "undefined"
            THEN /\ ev' = Event("handleDragStart", "unsupported")
                 /\ sinkCall' = NoCall
                 /\ UNCHANGED <<reactState, parses, cleans, adds, drags>>
            ELSE /\ InFlight < MaxInFlight
                 /\ sinkCall' = [sink |-> startDrag, req |-> dragData]
                 /\ drags' = drags (+) SetToBag({DragTask("dragging", dragData)})
                 /\ ev' = Event("handleDragStart", startDrag)
                 /\ UNCHANGED <<reactState, parses, cleans, adds>>

\* the drop: the host calls dragData.resolveImageRef, which calls upload(...)
ResolveImageRef(d) ==
    /\ BagIn(d, drags)
    /\ d.pc = "dragging"
    /\ sinkCall' = [sink |-> "upload", req |-> d.data.resolveImageRef]
    /\ drags' = (drags (-) SetToBag({d})) (+) SetToBag({DragTask("upload", d.data)})
    /\ ev' = Event("resolveImageRef", "")
    /\ UNCHANGED <<reactState, parses, cleans, adds>>

\* the drag ends outside the design: the host drops dragData
DragCancelled(d) ==
    /\ BagIn(d, drags)
    /\ d.pc = "dragging"
    /\ drags' = drags (-) SetToBag({d})
    /\ sinkCall' = NoCall
    /\ ev' = Event("dragCancelled", "")
    /\ UNCHANGED <<reactState, parses, cleans, adds>>

\* upload(...) of uploadCleanedImage settles: {ref} or the rejection goes to the host
DragUploadSettled(d, ok) ==
    /\ BagIn(d, drags)
    /\ d.pc = "upload"
    /\ drags' = drags (-) SetToBag({d})
    /\ sinkCall' = NoCall
    /\ ev' = Event("dragUploadSettled", IF ok THEN "ref" ELSE "rejected")
    /\ UNCHANGED <<reactState, parses, cleans, adds>>

\* the lists of files a drop may hand over: the FileInput takes one file
Drops(S) == {<<>>} \cup {<<f>> : f \in S}

Next ==
    \/ \E files \in Drops(Files) : HandleFileSelect(files)
    \/ \E file \in Files : ParseSettled(file)
    \/ HandleReset
    \/ HandleCleanMetadata
    \/ \E t \in BagToSet(cleans), ctx \in BOOLEAN : ImageSettled(t, ctx)
    \/ \E t \in BagToSet(cleans), made \in BOOLEAN : BlobSettled(t, made)
    \/ \E t \in BagToSet(cleans), read \in BOOLEAN : ReadSettled(t, read)
    \/ \E caps \in Capabilities : HandleClick(caps)
    \/ \E t \in BagToSet(adds), ok \in BOOLEAN : UploadSettled(t, ok)
    \/ \E t \in BagToSet(adds), ok \in BOOLEAN : InsertSettled(t, ok)
    \/ \E caps \in Capabilities : HandleDragStart(caps)
    \/ \E d \in BagToSet(drags) : ResolveImageRef(d)
    \/ \E d \in BagToSet(drags) : DragCancelled(d)
    \/ \E d \in BagToSet(drags), ok \in BOOLEAN : DragUploadSettled(d, ok)

Spec == Init /\ [][Next]_vars

\* a session with one file: its selection, its extraction and its cleaning
NextSingle ==
    \/ \E files \in Drops(SingleFiles) : HandleFileSelect(files)
    \/ \E file \in SingleFiles : ParseSettled(file)
    \/ HandleCleanMetadata
    \/ \E t \in BagToSet(cleans), ctx \in BOOLEAN : ImageSettled(t, ctx)
    \/ \E t \in BagToSet(cleans), made \in BOOLEAN : BlobSettled(t, made)
    \/ \E t \in BagToSet(cleans), read \in BOOLEAN : ReadSettled(t, read)

SpecSingle == Init /\ [][NextSingle]_vars

\* selections, resets and cleans of the files of the test flow, without the
\* add-to-design handlers
NextCore ==
    \/ \E files \in Drops(Files) : HandleFileSelect(files)
    \/ \E file \in Files : ParseSettled(file)
    \/ HandleReset
    \/ HandleCleanMetadata
    \/ \E t \in BagToSet(cleans), ctx \in BOOLEAN : ImageSettled(t, ctx)
    \/ \E t \in BagToSet(cleans), made \in BOOLEAN : BlobSettled(t, made)
    \/ \E t \in BagToSet(cleans), read \in BOOLEAN : ReadSettled(t, read)

\* the external callbacks fire: every pending exifr.parse settles, and of
\* every file being cleaned the image load or error event, the toBlob
\* callback and the FileReader event are delivered
CallbackFairness ==
    /\ \A file \in Files : WF_vars(ParseSettled(file))
    /\ \A file \in Files :
          /\ WF_vars(\E t \in BagToSet(cleans), ctx \in BOOLEAN :
                        t.file = file /\ ImageSettled(t, ctx))
          /\ WF_vars(\E t \in BagToSet(cleans), made \in BOOLEAN :
                        t.file = file /\ BlobSettled(t, made))
          /\ WF_vars(\E t \in BagToSet(cleans), read \in BOOLEAN :
                        t.file = file /\ ReadSettled(t, read))

SpecFair == Init /\ [][NextCore]_vars /\ CallbackFairness

(***************************************************************************)
(* Properties.                                                             *)
(***************************************************************************)
\* the keys of a record that hold a value
Populated(m) == IF m = Null THEN {} ELSE {k \in DOMAIN m : m[k] # Undefined}

RiskFields ==
    {"latitude", "longitude", "dateTimeOriginal", "make", "model", "artist"}

InformationalFields ==
    {"software", "copyright", "imageWidth", "imageHeight", "dateTime",
     "orientation", "raw"}

\* the record the extractor yields for the bytes `file`
Extract(file) == ExtractedRecord(ExifrParse(file))

\* C1: whenever a cleaned image is stored, the extractor run on its bytes yields
\* the empty record: no key at all, so no GPS, date, camera, artist or copyright.
ReencodingStripsMetadata ==
    cleanedImageUrl # Null =>
        /\ cleanedImageUrl.scheme = "data"
        /\ Extract(cleanedImageUrl.body) = EmptyObject
        /\ Populated(Extract(cleanedImageUrl.body)) = {}

\* C1 witness: a file whose record shows a privacy risk has been cleaned.
CleanedRiskyImage ==
    /\ selectedFile # Null
    /\ Populated(Extract(selectedFile)) \cap RiskFields # {}
    /\ processingState = "done"
    /\ cleanedImageUrl # Null
    /\ ev.op = "cleanDone"

\* C2: hasPrivacyRisks is true exactly when a record exists and one of latitude,
\* longitude, dateTimeOriginal, make, model, artist is populated; it is false for
\* a record populated only with informational fields.
ClassificationCorrect ==
    /\ hasPrivacyRisks <=>
          (metadata # Null /\ Populated(metadata) \cap RiskFields # {})
    /\ (metadata # Null /\ Populated(metadata) \subseteq InformationalFields)
          => ~hasPrivacyRisks

\* C2 witness: a record whose only populated risk field is the artist.
ArtistOnlyRecord ==
    /\ metadata # Null
    /\ Populated(metadata) \cap RiskFields = {"artist"}
    /\ hasPrivacyRisks

\* C3: whatever exifr.parse settles with, the continuation of handleFileSelect
\* stores a record (the empty one when the parse returned null or threw), sets
\* processingState to idle and leaves the error message alone.
ExtractionNeverFailsOutward ==
    [][ev'.op = "parseSettled" =>
          /\ metadata' # Null
          /\ ev'.out \in {"null", "throw"} => metadata' = EmptyObject
          /\ ev'.out = "ok" => DOMAIN metadata' = MetadataKeys
          /\ processingState' = "idle"
          /\ error' = error]_vars

\* C3 witness: the parse of the selected file threw and the empty record is stored.
ThrownParseAbsorbed ==
    /\ ev = Event("parseSettled", "throw")
    /\ selectedFile # Null
    /\ metadata = EmptyObject
    /\ processingState = "idle"
    /\ error = Null

\* C4: a clean result that arrives after a reset or a new selection is dropped:
\* the completion of a clean stores its data URL and moves to done only when the
\* file it cleaned is still the selected file.
StaleCleanResultsDropped ==
    ev.op = "cleanDone" =>
        /\ selectedFile # Null
        /\ cleanedImageUrl = CleanOutput(selectedFile)

\* C5: a stored record is the extraction result of the selected file, and with
\* no file selected no record is stored.
MetadataBelongsToActiveImage ==
    /\ (selectedFile # Null /\ metadata # Null) => metadata = Extract(selectedFile)
    /\ selectedFile = Null => metadata = Null

\* the handlers of the user's actions
UserHandlers ==
    {"handleFileSelect", "handleCleanMetadata", "handleClick", "handleDragStart",
     "handleReset"}

\* the handler e ran to an effect (it did not return at its first guard)
Accepted(e) ==
    e.op \in UserHandlers /\ e.out \notin {"noFile", "returned", "unsupported"}

\* C6: while the promise of one user action is pending, no user action is
\* accepted.
UserActionsSerialized ==
    [][InFlight > 0 => ~Accepted(ev')]_vars

\* C7: whichever step of a clean attempt fails, the attempt ends with the
\* cleaning error message set and processingState idle, it stores no cleaned
\* image, and it starts no new attempt.
CleanFailureReturnsToIdle ==
    [][ev'.op = "cleanFailed" =>
          /\ ev'.out \in {"load", "context", "toBlob", "read"}
          /\ error' = CleanErrorMessage
          /\ processingState' = "idle"
          /\ cleanedImageUrl' = cleanedImageUrl
          /\ cleanedImageSize' = cleanedImageSize
          /\ BagCardinality(cleans') = BagCardinality(cleans) - 1
          /\ \A t \in BagToSet(cleans') : CopiesIn(t, cleans') <= CopiesIn(t, cleans)]_vars

\* C7 witness: the reader failed on the blob of the selected file.
ReadFailureSurfaced ==
    /\ ev = Event("cleanFailed", "read")
    /\ selectedFile # Null
    /\ error = CleanErrorMessage
    /\ processingState = "idle"
    /\ cleanedImageUrl = Null

\* the natural size of the image the data URL `url` was encoded from
SourceSize(url) == [width |-> url.body.image.w, height |-> url.body.image.h]

\* C8: a stored cleaned image comes with the natural size of the file it was
\* produced from, and that size is the one given to the upload sink and to the
\* drag as fullSize.
DimensionPreserved ==
    /\ cleanedImageUrl # Null =>
          \E f \in Files :
              /\ cleanedImageUrl = CleanOutput(f)
              /\ cleanedImageSize = [width |-> f.image.w, height |-> f.image.h]
    /\ sinkCall.sink = "upload" =>
          /\ sinkCall.req.width = SourceSize(sinkCall.req.url).width
          /\ sinkCall.req.height = SourceSize(sinkCall.req.url).height
    /\ sinkCall.sink \in {"startDragToPoint", "startDragToCursor"} =>
          sinkCall.req.fullSize = SourceSize(sinkCall.req.previewUrl)

\* C8 witness: the cleaned 640 x 480 image is handed to the upload sink.
CleanedImageUploadedWithSize ==
    /\ sinkCall.sink = "upload"
    /\ cleanedImageUrl = sinkCall.req.url
    /\ cleanedImageSize = [width |-> 640, height |-> 480]

\* C9: the blob of a clean operation is a PNG exactly when the declared type of
\* the file it cleans is image/png; for image/jpeg, image/webp and image/tiff it
\* is a JPEG.
OutputContainerSelection ==
    /\ \A t \in BagToSet(cleans) :
          t.pc = "read" =>
              /\ t.blob.type = "image/png" <=> t.file.type = "image/png"
              /\ t.file.type \in {"image/jpeg", "image/webp", "image/tiff"}
                    => t.blob.type = "image/jpeg"
    /\ (cleanedImageUrl # Null /\ selectedFile # Null) =>
          /\ cleanedImageUrl.body.type = "image/png" <=> selectedFile.type = "image/png"
          /\ selectedFile.type \in {"image/jpeg", "image/webp", "image/tiff"}
                => cleanedImageUrl.body.type = "image/jpeg"

\* C9 witness: a WebP file has been cleaned.
WebpCleanedToJpeg ==
    /\ selectedFile # Null
    /\ selectedFile.type = "image/webp"
    /\ ev.op = "cleanDone"
    /\ cleanedImageUrl # Null
    /\ cleanedImageUrl.body.type = "image/jpeg"

\* the data URLs the re-encoder produces
CleanOutputs == {CleanOutput(f) : f \in {g \in Files : LoadImage(g).ok}}

\* C10: the upload sink is called only by handleClick and by the host's call of
\* resolveImageRef after a drag, and what it is given is an output of the
\* re-encoder (for a click, the stored cleanedImageUrl), never a file of the
\* user or its preview URL.
OnlyCleanedDataLeaves ==
    sinkCall.sink = "upload" =>
        /\ ev.op \in {"handleClick", "resolveImageRef"}
        /\ ev.op = "handleClick" => sinkCall.req.url = cleanedImageUrl
        /\ \A u \in {sinkCall.req.url, sinkCall.req.thumbnailUrl} :
              /\ u \in CleanOutputs
              /\ u.scheme = "data"
              /\ u.body \notin Files
              /\ \A f \in Files : u # CreateObjectURL(f)

\* C10 witness: a click uploads the cleaned image of a file that carries tags.
ClickUploadsCleanedImage ==
    /\ ev = Event("handleClick", "upload")
    /\ sinkCall.sink = "upload"
    /\ selectedFile # Null
    /\ selectedFile.meta.kind = "tags"
    /\ sinkCall.req.url = CleanOutput(selectedFile)

\* C11: every failure of the upload sink or of the insertion sink during an
\* add-to-design, started by a click or by a drag, sets the add-to-design error
\* message.
HostFailuresSurfaced ==
    /\ ev.op = "addFailed" => error = AddErrorMessage
    /\ ev = Event("dragUploadSettled", "rejected") => error = AddErrorMessage

\* C12: immediately after handleReset, selectedFile, imagePreview, metadata,
\* cleanedImageUrl, cleanedImageSize and error are all null and
\* processingState is idle, whatever the state before the reset.
ResetRestoresInitialState ==
    ev.op = "handleReset" =>
        /\ selectedFile = Null
        /\ imagePreview = Null
        /\ metadata = Null
        /\ cleanedImageUrl = Null
        /\ cleanedImageSize = Null
        /\ error = Null
        /\ processingState = "idle"

\* a reset made while a callback of an earlier operation is still pending
ResetWithCallbackPending == ev.op = "handleReset" /\ InFlight > 0

\* C13: a clean operation is started for the selected file only after the
\* extraction started by the selection of that same file has completed.
ExtractionPrecedesCleaning ==
    ev.op = "handleCleanMetadata" => ~BagIn(selectedFile, parses)

\* C14: immediately after a file selection, metadata, the cleaned image URL
\* and the cleaned image size produced for the previously selected file are
\* all absent, and they remain absent until recomputed for the new file.
SelectionInvalidatesResults ==
    /\ ev = Event("handleFileSelect", "reading") =>
           /\ metadata = Null
           /\ cleanedImageUrl = Null
           /\ cleanedImageSize = Null
    /\ (selectedFile # Null /\ metadata # Null) =>
           metadata = ExtractedRecord(ExifrParse(selectedFile))
    /\ (selectedFile # Null /\ cleanedImageUrl # Null) =>
           cleanedImageUrl = CleanOutput(selectedFile)
    /\ (selectedFile # Null /\ cleanedImageSize # Null) =>
           cleanedImageSize = NaturalSize(LoadImage(selectedFile))

\* C15: no two clean operations are in flight at the same time, and from the
\* start of a clean operation until its completion or failure processingState
\* stays cleaning (so the clean button cannot be activated again).
SingleCleanInFlight ==
    /\ BagCardinality(cleans) <= 1
    /\ cleans # EmptyBag => processingState = "cleaning"

\* C16: the MIME type declared to the upload sink equals the container format
\* of the cleaned bytes that are uploaded, and whenever add-to-design is
\* possible the cleaned image was produced from the selected file.
DeclaredTypeMatchesUpload ==
    /\ sinkCall.sink = "upload" =>
           sinkCall.req.mimeType = sinkCall.req.url.body.type
    /\ ImageCardShown => cleanedImageUrl = CleanOutput(selectedFile)

\* the named fields of the displayed record
NamedFields == MetadataKeys \ {"raw"}

\* C17: whenever the displayed metadata record has none of the named fields
\* populated, including when the parser returned only unmapped tags, the UI
\* shows "No metadata found" instead of the metadata box.
EmptyRecordShownAsNoMetadata ==
    (MetadataSectionShown /\ Populated(metadata) \cap NamedFields = {}) =>
        NoMetadataFoundShown /\ ~MetadataBoxShown

\* the insertion sink: the addElement function the app found supported
InsertionSinks == {"addElementAtPoint", "addElementAtCursor"}

\* C18: the insertion sink is invoked only in the step in which the upload of
\* the same click has returned successfully, with exactly the reference that
\* upload returned; it is not invoked when the upload failed, nor when
\* cleanedImageUrl, selectedFile, cleanedImageSize or a supported insertion
\* capability is missing (handleClick then returns and starts nothing).
InsertionFollowsUpload ==
    [][ /\ sinkCall'.sink \in InsertionSinks =>
              /\ ev' = Event("uploadSettled", "addElement")
              /\ \E t \in BagToSet(adds) :
                    /\ t.pc = "upload"
                    /\ t.addElement = sinkCall'.sink
                    /\ sinkCall'.req = AddElementRequest(AssetRef(t.req))
                    /\ AddTask("insert", t.req, t.addElement, AssetRef(t.req))
                          \in BagToSet(adds')
        /\ ev'.op = "addFailed" => sinkCall' = NoCall
        /\ ev' = Event("handleClick", "returned") =>
              sinkCall' = NoCall /\ adds' = adds
        /\ ev' = Event("handleClick", "upload") =>
              /\ sinkCall'.sink = "upload"
              /\ cleanedImageUrl # Null /\ selectedFile # Null
              /\ cleanedImageSize # Null
        /\ \A t \in BagToSet(adds') : t.addElement \in InsertionSinks
      ]_vars

\* C18 witness: an upload has returned and addElementAtCursor, the only
\* insertion capability supported, is being called with its reference.
InsertedAtCursorAfterUpload ==
    /\ ev = Event("uploadSettled", "addElement")
    /\ sinkCall.sink = "addElementAtCursor"
    /\ sinkCall.req.ref # NoRef

\* the value a first-present-wins projection of the tags a, b yields
FirstPresent(tags, a, b) == IF a \in DOMAIN tags THEN tags[a] ELSE Get(tags, b)

\* C19: the record's imageWidth equals the ImageWidth tag whenever that tag
\* is present (for every value, including 0) and equals ExifImageWidth only
\* when ImageWidth is absent; likewise imageHeight with ImageHeight and
\* ExifImageHeight.
DimensionFirstPresentWins ==
    (metadata # Null /\ "raw" \in DOMAIN metadata) =>
        /\ metadata.imageWidth =
              FirstPresent(metadata.raw, "ImageWidth", "ExifImageWidth")
        /\ metadata.imageHeight =
              FirstPresent(metadata.raw, "ImageHeight", "ExifImageHeight")

\* C20: under fairness of the external callbacks, every entry into
\* processingState reading eventually leads to idle, and every entry into
\* cleaning eventually leads to done or to idle with an error.
BusyStatesEnd ==
    /\ (processingState = "reading") ~> (processingState = "idle")
    /\ (processingState = "cleaning") ~>
          (\/ processingState = "done"
           \/ processingState = "idle" /\ error # Null)

\* C20 witness: a clean is running while the parse of an earlier selection is
\* still pending.
CleaningWithParsePending ==
    /\ ev.op = "handleCleanMetadata"
    /\ processingState = "cleaning"
    /\ parses # EmptyBag

\* C21: when the upload or the insertion of a click-triggered add fails,
\* selectedFile, metadata, cleanedImageUrl, cleanedImageSize and
\* processingState are left unchanged and only the error message is set.
FailedAddKeepsSession ==
    [][ ev'.op = "addFailed" =>
            /\ UNCHANGED <<selectedFile, metadata, cleanedImageUrl,
                           cleanedImageSize, processingState, imagePreview>>
            /\ error' = AddErrorMessage
      ]_vars

\* C21 witness: an insertion has failed and the image card of the same cleaned
\* image is still rendered, ready to be clicked again.
FailedInsertStillAddable ==
    /\ ev = Event("addFailed", "insert")
    /\ error = AddErrorMessage
    /\ ImageCardShown
    /\ cleanedImageUrl = CleanOutput(selectedFile)

\* C22: in every reachable state, processingState = done implies that
\* cleanedImageUrl and cleanedImageSize are both non-null.
DoneImpliesCleanedImage ==
    processingState = "done" =>
        cleanedImageUrl # Null /\ cleanedImageSize # Null

\* C22 witness: a clean has just completed and the state is done.
CleanJustCompleted ==
    /\ ev.op = "cleanDone"
    /\ processingState = "done"
    /\ cleanedImageSize = NaturalSize(LoadImage(cleanedImageUrl.body))

\* C23: in every reachable state cleanedImageUrl is null if and only if
\* cleanedImageSize is null.
UrlAndSizeTogether == (cleanedImageUrl = Null) <=> (cleanedImageSize = Null)

\* C24: after a click-triggered add in which both the upload and the insertion
\* succeed, the error message is null, including when an earlier add attempt
\* on the same cleaned image had failed.
SuccessfulAddLeavesNoError == ev.op = "addDone" => error = Null

\* C25: whenever the metadata section is shown with the "Privacy risks
\* detected" warning, at least one risk row (GPS location, Date taken, Camera
\* make, Camera model, Artist) is displayed, for every metadata record.
WarningBackedByRiskRow == PrivacyWarningShown => RiskRowsShown # {}
====
